---- MODULE Spec2Model ----
(***************************************************************************)
(* Model of windows/flutter_shopscript_plugin.cpp: the registration of the *)
(* "flutter_shopscript" method channel and the dispatch of method calls to *)
(* FlutterShopScriptPlugin::HandleMethodCall.                              *)
(*                                                                         *)
(* Strings are sequences of character codes (ASCII), so that comparison    *)
(* and stream insertion are computed, not assumed.                         *)
(***************************************************************************)
EXTENDS Integers, Sequences, FiniteSets, TLC

\* ------------------------------------------------------------------ bounds
MaxRegistrations == 2   \* runs of the registration entry point
MaxCalls == 2           \* messages the Dart side sends
MaxQueue == 2           \* messages in flight at once

\* ---------------------------------------------------------------- literals
\* "getPlatformVersion"
GetPlatformVersionName ==
  <<103, 101, 116, 80, 108, 97, 116, 102, 111, 114, 109,
    86, 101, 114, 115, 105, 111, 110>>

\* "Windows "
WindowsLiteral == <<87, 105, 110, 100, 111, 119, 115, 32>>

\* A channel name that is not the one the Dart side of the plugin uses.
ChannelNameTypo == "flutter_shopscript_plugin"

\* the channel name the plugin registers
ChannelName == "flutter_shopscript"

\* no MethodChannel object
Null == "null"

\* the null plugin pointer / the empty unique_ptr (plugin objects are 1, 2, ..)
NullPtr == 0

\* ------------------------------------------------------------ method names
\* "GetPlatformVersion" (differs only in the case of the first letter)
NameCaseMismatch == <<71>> \o Tail(GetPlatformVersionName)
\* "platformVersion"
NamePlatformVersion ==
  <<112, 108, 97, 116, 102, 111, 114, 109, 86, 101, 114, 115, 105, 111, 110>>
\* "getPlatformVersio" (proper prefix)
NamePrefix == SubSeq(GetPlatformVersionName, 1, Len(GetPlatformVersionName) - 1)
\* "getPlatformVersionX" (extension)
NameExtension == GetPlatformVersionName \o <<88>>
\* ""
NameEmpty == <<>>

MethodNames ==
  {GetPlatformVersionName, NameCaseMismatch, NamePlatformVersion,
   NamePrefix, NameExtension, NameEmpty}

\* the argument payloads a call may carry (unused by the handler)
Arguments == {"null", "map"}

\* the channels the Dart side may send on
Channels == {"flutter_shopscript", "other_channel"}

\* ------------------------------------------------------- library semantics
Min(a, b) == IF a <= b THEN a ELSE b

Sign(n) == IF n < 0 THEN -1 ELSE IF n > 0 THEN 1 ELSE 0

\* index of the first position where a and b differ, 0 when none within n
RECURSIVE FirstDiff(_, _, _, _)
FirstDiff(a, b, i, n) ==
  IF i > n THEN 0
  ELSE IF a[i] # b[i] THEN i
  ELSE FirstDiff(a, b, i + 1, n)

\* the lower-case form of a string
RECURSIVE ToLower(_)
ToLower(s) ==
  IF s = <<>> THEN <<>>
  ELSE <<IF Head(s) >= 65 /\ Head(s) <= 90 THEN Head(s) + 32 ELSE Head(s)>>
       \o ToLower(Tail(s))

\* A comparison that ignores the case of letters.
CompareNoCase(a, b) ==
  LET la == ToLower(a)
      lb == ToLower(b)
      d == FirstDiff(la, lb, 1, Min(Len(la), Len(lb)))
  IN IF d # 0 THEN Sign(la[d] - lb[d]) ELSE Sign(Len(la) - Len(lb))

\* std::string::compare: the sign of the first differing character over the
\* common length, else the sign of the length difference
Compare(a, b) ==
  LET d == FirstDiff(a, b, 1, Min(Len(a), Len(b)))
  IN IF d # 0 THEN Sign(a[d] - b[d]) ELSE Sign(Len(a) - Len(b))

\* std::ostringstream: operator<< appends to the buffer
StreamInsert(stream, text) == stream \o text

\* flutter::EncodableValue(std::string)
EncodableValue(s) == [type |-> "string", value |-> s]

\* the calls a handler makes on its MethodResult
Success(v) == [kind |-> "Success", value |-> v]
NotImplemented ==
  [kind |-> "NotImplemented", value |-> [type |-> "null", value |-> <<>>]]
Error == [kind |-> "Error", value |-> [type |-> "null", value |-> <<>>]]

\* -------------------------------------------------------- HandleMethodCall
\* The handler with a version suffix appended to the stream ("Windows 10+").
HandleMethodCallWithSuffix(method_call) ==
  IF Compare(method_call.method_name, GetPlatformVersionName) = 0
  THEN LET version_stream == StreamInsert(StreamInsert(<<>>, WindowsLiteral),
                                          <<49, 48, 43>>)
       IN <<Success(EncodableValue(version_stream))>>
  ELSE <<NotImplemented>>

\* The handler with the else lost: NotImplemented is called on every path.
HandleMethodCallFallThrough(method_call) ==
  (IF Compare(method_call.method_name, GetPlatformVersionName) = 0
   THEN <<Success(EncodableValue(StreamInsert(<<>>, WindowsLiteral)))>>
   ELSE <<>>) \o <<NotImplemented>>

\* The handler answering only calls that carry no arguments.
HandleMethodCallArgs(method_call) ==
  IF Compare(method_call.method_name, GetPlatformVersionName) = 0
     /\ method_call.arguments = "null"
  THEN <<Success(EncodableValue(StreamInsert(<<>>, WindowsLiteral)))>>
  ELSE <<NotImplemented>>

\* The handler with the else branch left empty: unknown methods get no reply.
HandleMethodCallSilent(method_call) ==
  IF Compare(method_call.method_name, GetPlatformVersionName) = 0
  THEN <<Success(EncodableValue(StreamInsert(<<>>, WindowsLiteral)))>>
  ELSE <<>>

\* FlutterShopScriptPlugin::HandleMethodCall: the sequence of calls made on
\* the result object, in order.
HandleMethodCall(method_call) ==
  IF Compare(method_call.method_name, GetPlatformVersionName) = 0
  THEN LET version_stream == StreamInsert(<<>>, WindowsLiteral)
       IN <<Success(EncodableValue(version_stream))>>
  ELSE <<NotImplemented>>

\* ------------------------------------------------------------------- state
VARIABLES
  pc,               \* position of the platform thread in the registration
  regs,             \* registrations that have returned
  channel,          \* the local MethodChannel of RegisterWithRegistrar
  plugin,           \* the local unique_ptr<FlutterShopScriptPlugin>
  created,          \* plugin objects constructed so far (ids 1..created)
  live,             \* plugin objects constructed and not destroyed
  registrarPlugins, \* the plugins the registrar owns
  handlers,         \* the messenger's bound handlers: channel -> closure
  handlerSets,      \* executions of SetMethodCallHandler
  queue,            \* method calls sent by the Dart side, not yet dispatched
  sent,             \* method calls sent so far
  unhandled,        \* calls dispatched while their channel had no handler
  responses         \* the calls HandleMethodCall has returned from

vars ==
  <<pc, regs, channel, plugin, created, live, registrarPlugins, handlers,
    handlerSets, queue, sent, unhandled, responses>>

regVars == <<pc, regs, channel, plugin, created, live, registrarPlugins,
             handlers, handlerSets>>

\* A process in which a handler is bound before any registration has run.
InitPreBound ==
  /\ pc = "idle"
  /\ regs = 0
  /\ channel = Null
  /\ plugin = NullPtr
  /\ created = 1
  /\ live = {1}
  /\ registrarPlugins = {}
  /\ handlers = {[channel |-> ChannelName, plugin_pointer |-> 1]}
  /\ handlerSets = 0
  /\ queue = <<>>
  /\ sent = 0
  /\ unhandled = 0
  /\ responses = <<>>

\* The process before the host calls the registration entry point: the
\* translation unit has no static state, so nothing exists and nothing is
\* bound.
Init ==
  /\ pc = "idle"
  /\ regs = 0
  /\ channel = Null
  /\ plugin = NullPtr
  /\ created = 0
  /\ live = {}
  /\ registrarPlugins = {}
  /\ handlers = {}
  /\ handlerSets = 0
  /\ queue = <<>>
  /\ sent = 0
  /\ unhandled = 0
  /\ responses = <<>>

\* ------------------------------------------------------------ registration
\* The exported entry point: resolves the registrar and enters
\* RegisterWithRegistrar.
FlutterShopScriptPluginRegisterWithRegistrar ==
  /\ pc = "idle"
  /\ regs < MaxRegistrations
  /\ pc' = "make_channel"
  /\ UNCHANGED <<regs, channel, plugin, created, live, registrarPlugins,
                 handlers, handlerSets, queue, sent, unhandled, responses>>

\* auto channel = std::make_unique<MethodChannel>(messenger, name, codec)
MakeChannel ==
  /\ pc = "make_channel"
  /\ channel' = ChannelName
  /\ pc' = "make_plugin"
  /\ UNCHANGED <<regs, plugin, created, live, registrarPlugins, handlers,
                 handlerSets, queue, sent, unhandled, responses>>

\* auto plugin = std::make_unique<FlutterShopScriptPlugin>(): the constructor
\* has an empty body; the object has no fields.
MakePlugin ==
  /\ pc = "make_plugin"
  /\ created' = created + 1
  /\ plugin' = created + 1
  /\ live' = live \cup {created + 1}
  /\ pc' = "set_handler"
  /\ UNCHANGED <<regs, channel, registrarPlugins, handlers, handlerSets,
                 queue, sent, unhandled, responses>>

\* Binding that adds the closure and keeps the ones already bound.
SetMethodCallHandlerKeep(bound, name, plugin_pointer) ==
  bound \cup {[channel |-> name, plugin_pointer |-> plugin_pointer]}

\* channel->SetMethodCallHandler(closure): the messenger keeps one handler
\* per channel name; the closure captures plugin.get().
SetMethodCallHandler(bound, name, plugin_pointer) ==
  {h \in bound : h.channel # name}
    \cup {[channel |-> name, plugin_pointer |-> plugin_pointer]}

SetHandler ==
  /\ pc = "set_handler"
  /\ handlers' = SetMethodCallHandler(handlers, channel, plugin)
  /\ handlerSets' = handlerSets + 1
  /\ pc' = "add_plugin"
  /\ UNCHANGED <<regs, channel, plugin, created, live, registrarPlugins,
                 queue, sent, unhandled, responses>>

\* A registrar call that does not keep the pointer it is given.
AddPluginDrop(plugins, p) == plugins

\* registrar->AddPlugin(std::unique_ptr<Plugin>): the registrar keeps it.
AddPlugin(plugins, p) == plugins \cup {p}

\* The local pointer still holding the object after the call.
MovedFromKept(p) == p

\* std::move(plugin) into a by-value unique_ptr leaves the local one empty.
MovedFrom(p) == NullPtr

\* registrar->AddPlugin(std::move(plugin)); an object no unique_ptr owns
\* after the statement has been deleted.
AddPluginStep ==
  /\ pc = "add_plugin"
  /\ registrarPlugins' = AddPlugin(registrarPlugins, plugin)
  /\ plugin' = MovedFrom(plugin)
  /\ live' = live \cap (registrarPlugins' \cup {plugin'})
  /\ pc' = "return"
  /\ UNCHANGED <<regs, channel, created, handlers, handlerSets,
                 queue, sent, unhandled, responses>>

\* The end of RegisterWithRegistrar: the locals are destroyed in reverse
\* order, plugin (deleting what it still owns) and then channel, whose
\* destructor leaves the messenger's handlers alone.
Return ==
  /\ pc = "return"
  /\ live' = live \ {plugin}
  /\ plugin' = NullPtr
  /\ channel' = Null
  /\ regs' = regs + 1
  /\ pc' = "idle"
  /\ UNCHANGED <<created, registrarPlugins, handlers, handlerSets,
                 queue, sent, unhandled, responses>>

\* ---------------------------------------------------------------- messages
\* The Dart side invokes a method on a channel; the call is in flight until
\* the platform thread dispatches it.
Send(ch, m, a) ==
  /\ sent < MaxCalls
  /\ Len(queue) < MaxQueue
  /\ queue' = Append(queue, [id |-> sent + 1, channel |-> ch,
                             method_name |-> m, arguments |-> a])
  /\ sent' = sent + 1
  /\ UNCHANGED <<regVars, unhandled, responses>>

\* The pointers the closures bound on a channel forward to.
Bound(ch) == {h.plugin_pointer : h \in {g \in handlers : g.channel = ch}}

\* What a call through the captured pointer may do: HandleMethodCall on a
\* live object; anything the build produces on a destroyed one.
Outcomes(plugin_pointer, method_call) ==
  IF plugin_pointer \in live
  THEN {HandleMethodCall(method_call)}
  ELSE {<<>>, <<NotImplemented>>, <<Error>>,
        <<Success(EncodableValue(WindowsLiteral))>>}

\* The messenger dispatches the oldest call in flight to the closure bound on
\* its channel, which calls plugin_pointer->HandleMethodCall(call, result);
\* the handler runs to its end within the step.
Dispatch ==
  /\ pc = "idle"
  /\ queue # <<>>
  /\ Bound(Head(queue).channel) # {}
  /\ \E p \in Bound(Head(queue).channel) :
       \E r \in Outcomes(p, Head(queue)) :
         responses' = Append(responses,
           [id |-> Head(queue).id,
            method_name |-> Head(queue).method_name,
            arguments |-> Head(queue).arguments,
            plugin |-> p,
            regs |-> regs,
            dangling |-> p \notin live,
            result |-> r])
  /\ queue' = Tail(queue)
  /\ UNCHANGED <<regVars, sent, unhandled>>

\* A call on a channel with no handler bound never reaches the plugin: the
\* messenger answers it itself.
DispatchUnbound ==
  /\ pc = "idle"
  /\ queue # <<>>
  /\ Bound(Head(queue).channel) = {}
  /\ queue' = Tail(queue)
  /\ unhandled' = unhandled + 1
  /\ UNCHANGED <<regVars, sent, responses>>

Next ==
  \/ FlutterShopScriptPluginRegisterWithRegistrar
  \/ MakeChannel
  \/ MakePlugin
  \/ SetHandler
  \/ AddPluginStep
  \/ Return
  \/ \E ch \in Channels, m \in MethodNames, a \in Arguments : Send(ch, m, a)
  \/ Dispatch
  \/ DispatchUnbound

Spec == Init /\ [][Next]_vars

\* ------------------------------------------------------------ observations
Indices == DOMAIN responses

\* the literal responses, written out
SuccessWindows ==
  <<[kind |-> "Success",
     value |-> [type |-> "string",
                value |-> <<87, 105, 110, 100, 111, 119, 115, 32>>]]>>

NotImplementedOnly ==
  <<[kind |-> "NotImplemented", value |-> [type |-> "null", value |-> <<>>]]>>

\* who owns plugin object p
Owners(p) ==
  (IF p \in registrarPlugins THEN {"registrar"} ELSE {})
    \cup (IF plugin = p THEN {"local"} ELSE {})

\* who holds a pointer to plugin object p, owning or not
References(p) ==
  Owners(p)
    \cup (IF \E h \in handlers : h.plugin_pointer = p THEN {"closure"} ELSE {})

Registered == pc = "idle" /\ regs >= 1

TypeOK ==
  /\ pc \in {"idle", "make_channel", "make_plugin", "set_handler",
             "add_plugin", "return"}
  /\ regs \in 0..MaxRegistrations
  /\ created \in 0..MaxRegistrations
  /\ live \subseteq 1..created
  /\ registrarPlugins \subseteq 1..created
  /\ sent \in 0..MaxCalls
  /\ Len(queue) <= MaxQueue

\* ------------------------------------------------------------------ claims

\* C1: every call handled under the method name "getPlatformVersion",
\* whatever its arguments, is answered by Success carrying "Windows ".
C1_KnownMethodSucceeds ==
  \A i \in Indices :
    responses[i].method_name = GetPlatformVersionName
      => responses[i].result = SuccessWindows

C1_Witness ==
  \E i \in Indices :
    /\ responses[i].method_name = GetPlatformVersionName
    /\ responses[i].arguments = "map"
    /\ responses[i].result = SuccessWindows

\* C2: every call handled under any other method name (empty, a prefix, an
\* extension, another name, a name differing in case) is answered by
\* NotImplemented and never by Success.
C2_UnknownMethodNotImplemented ==
  \A i \in Indices :
    responses[i].method_name # GetPlatformVersionName
      => /\ responses[i].result = NotImplementedOnly
         /\ \A k \in DOMAIN responses[i].result :
              responses[i].result[k].kind # "Success"

C2_Witness ==
  \E i, j \in Indices :
    /\ responses[i].method_name = NameCaseMismatch
    /\ responses[i].result = NotImplementedOnly
    /\ responses[j].method_name \in {NameEmpty, NamePrefix, NameExtension,
                                     NamePlatformVersion}
    /\ responses[j].result = NotImplementedOnly

\* C3: every handled call has exactly one response on its result object,
\* a Success or a NotImplemented, and never an Error.
C3_ExactlyOneResponse ==
  \A i \in Indices :
    /\ Len(responses[i].result) = 1
    /\ responses[i].result[1].kind \in {"Success", "NotImplemented"}

C3_Witness ==
  \E i, j \in Indices :
    /\ Len(responses[i].result) = 1
    /\ responses[i].result[1].kind = "Success"
    /\ Len(responses[j].result) = 1
    /\ responses[j].result[1].kind = "NotImplemented"

\* C4: once RegisterWithRegistrar has returned, the local MethodChannel is
\* gone, a handler is bound under "flutter_shopscript" that forwards to the
\* plugin that registration created, and every call dispatched on that
\* channel from then on is handled by that plugin.
C4_BoundAfterReturn ==
  Registered =>
    /\ channel = Null
    /\ Bound("flutter_shopscript") = {created}

C4_Forwarded ==
  (/\ Registered
   /\ queue # <<>>
   /\ Head(queue).channel = "flutter_shopscript"
   /\ queue' = Tail(queue))
    => /\ Len(responses') = Len(responses) + 1
       /\ responses'[Len(responses')].id = Head(queue).id
       /\ responses'[Len(responses')].plugin = created
       /\ unhandled' = unhandled

C4_HandlerReachable == [](C4_BoundAfterReturn) /\ [][C4_Forwarded]_vars

C4_Witness ==
  /\ Registered
  /\ channel = Null
  /\ \E i \in Indices : responses[i].plugin = created /\ responses[i].regs = regs

\* C5 as stated: after registration the registrar is the only holder of a
\* reference to the plugin.
C5_NoOtherReference ==
  Registered => \A p \in live : References(p) = {"registrar"}

\* C5 amended: after AddPlugin the registrar is the only owner of every
\* plugin object (the local unique_ptr is empty), and the only other
\* reference to a plugin is the non-owning pointer captured by the closure
\* bound on the messenger, which the latest plugin always has.
C5_ExclusiveOwnership ==
  (pc \in {"return", "idle"} /\ created >= 1) =>
    /\ plugin = NullPtr
    /\ \A p \in 1..created :
         /\ Owners(p) = {"registrar"}
         /\ References(p) \subseteq {"registrar", "closure"}
    /\ "closure" \in References(created)

C5_Witness ==
  /\ Registered
  /\ regs = 2
  /\ References(1) = {"registrar"}
  /\ References(2) = {"registrar", "closure"}

\* C6: the handler is stateless: calls with the same method name get the
\* same response whatever their arguments and whatever was handled before,
\* and handling a call changes nothing of the plugin, the channel binding or
\* the registrar.
C6_SameNameSameResponse ==
  \A i, j \in Indices :
    responses[i].method_name = responses[j].method_name
      => responses[i].result = responses[j].result

C6_Frame ==
  Len(responses') > Len(responses)
    => UNCHANGED <<pc, regs, channel, plugin, created, live,
                   registrarPlugins, handlers, handlerSets>>

C6_Stateless == [](C6_SameNameSameResponse) /\ [][C6_Frame]_vars

C6_Witness ==
  \E i, j \in Indices :
    /\ i < j
    /\ responses[i].method_name = responses[j].method_name
    /\ responses[i].arguments # responses[j].arguments
    /\ responses[i].regs # responses[j].regs
    /\ responses[i].result = responses[j].result

\* C7: a handled call is never left pending (its response is on the result
\* object when the handler returns), calls are answered in the order they
\* were delivered, and no call still in flight is older than an answered one.
C7_SynchronousInOrder ==
  /\ \A i \in Indices : responses[i].result # <<>>
  /\ \A i, j \in Indices : i < j => responses[i].id < responses[j].id
  /\ \A i \in Indices : \A k \in DOMAIN queue : responses[i].id < queue[k].id

C7_Witness ==
  /\ Len(responses) = 2
  /\ responses[1].id = 1
  /\ responses[2].id = 2
  /\ responses[1].result # <<>>
  /\ responses[2].result = NotImplementedOnly
  /\ queue = <<>>

\* C8: a call reaches HandleMethodCall only after SetMethodCallHandler has
\* run in some registration.
C8_NoDispatchBeforeRegistration ==
  /\ Len(responses) > 0 => handlerSets > 0
  /\ \A i \in Indices : responses[i].regs >= 1

C8_Witness ==
  /\ unhandled >= 1
  /\ Len(responses) = 1
  /\ responses[1].id = 2
  /\ handlerSets = 1

\* C9: whenever a closure is bound, the pointer it captured refers to a live
\* plugin that the local unique_ptr or the registrar owns, and no call was
\* ever dispatched through a dangling pointer.
C9_CapturedPointerLive ==
  /\ \A h \in handlers :
       /\ h.plugin_pointer \in live
       /\ Owners(h.plugin_pointer) # {}
  /\ \A i \in Indices : ~responses[i].dangling

C9_Witness ==
  /\ pc = "return"
  /\ plugin = NullPtr
  /\ Bound("flutter_shopscript") = {created}
  /\ created \in live
  /\ created \in registrarPlugins
  /\ \E i \in Indices : ~responses[i].dangling

\* C10: after any number of registrations on the registrar, the registrar
\* keeps one plugin per registration, "flutter_shopscript" has exactly one
\* bound handler and it forwards to the latest plugin, and calls get the same
\* responses as after a single registration.
C10_BindingsPerChannel ==
  Cardinality({h \in handlers : h.channel = "flutter_shopscript"}) <= 1

C10_Reregistration ==
  /\ C10_BindingsPerChannel
  /\ Registered =>
       /\ registrarPlugins = 1..regs
       /\ Cardinality(registrarPlugins) = regs
       /\ registrarPlugins \subseteq live
       /\ Cardinality({h \in handlers : h.channel = "flutter_shopscript"}) = 1
       /\ Bound("flutter_shopscript") = {regs}
  /\ \A i, j \in Indices :
       (/\ responses[i].regs = 1
        /\ responses[j].regs > 1
        /\ responses[i].method_name = responses[j].method_name)
         => responses[i].result = responses[j].result

C10_Witness ==
  /\ Registered
  /\ regs = 2
  /\ Cardinality(registrarPlugins) = 2
  /\ \E i, j \in Indices :
       /\ responses[i].regs = 1
       /\ responses[i].plugin = 1
       /\ responses[j].regs = 2
       /\ responses[j].plugin = 2
       /\ responses[i].method_name = responses[j].method_name

====
